---- MODULE Spec2Model ----
(***************************************************************************)
(* Poll / discovery coordination of the NuHeat node server.                *)
(*                                                                         *)
(* The node server is a single Node.js event loop.  Every action below is  *)
(* one run-to-completion piece of a handler: from the arrival of a host    *)
(* event, or the settling of an awaited promise, up to the next await.     *)
(* Host events (poll ticks, commands, config, stop) and the settling of    *)
(* vendor / hub / lock promises interleave freely.                         *)
(***************************************************************************)
EXTENDS Integers, Sequences, FiniteSets

(* ----------------------------- bounds -------------------------------- *)
\* number of host events (poll tick, command, parameter change, stop)
\* delivered after the first config event
MaxEvents == 2
\* number of onDiscover activations that may be suspended at the same time
MaxDiscover == 1
\* number of restarts of the node server
MaxRestarts == 1

(* ---------------------------- constants ------------------------------ *)
None == "none"
\* nodeDefId of the three node classes
CONTROLLER == "CONTROLLER"
THERMOSTAT_F == "THERMOSTAT_F"
THERMOSTAT_C == "THERMOSTAT_C"
\* address given to the controller node by autoCreateController
ControllerAddress == "controller"
\* serial numbers the vendor may list
SerialNumbers == {1, 2}

\* stat.SerialNumber.toString()
toString(n) == CASE n = 1 -> "1" [] n = 2 -> "2"

ThermostatAddresses == {toString(n) : n \in SerialNumbers}
Addresses == ThermostatAddresses \cup {ControllerAddress}

\* values of the Scale custom parameter
Scales == {"Fahrenheit", "Celsius"}
\* defaultParams[tempScale]
DefaultScale == "Fahrenheit"

\* values of the CLISPH command, in the display unit of the device
SetPoints == {72}

\* keys of the custom parameters
emailParam == "Username"
pwParam == "Password"
tempScale == "Scale"

\* defaultParams
defaultParams ==
  [k \in {emailParam, pwParam, tempScale} |->
     CASE k = emailParam -> "john@doe.net"
       [] k = pwParam -> "password"
       [] k = tempScale -> DefaultScale]

\* the notice of autoCreateController: key, text, seconds it is shown
NewControllerNotice ==
  [key |-> "newController", text |-> "Controller node initialized", time |-> 5]

VARIABLES
  nodes,       \* poly.getNodes(): address -> nodeDefId
  drivers,     \* thermostat address -> its four driver values
  customParams,\* the custom parameters the hub holds: key -> value
  lockHolder,  \* the pass that ran under lock key 'poll' and is not yet released
  lockQueue,   \* tasks waiting for lock key 'poll'
  pollLog,     \* how the doPoll call that settled last ended
  queries,     \* ThermostatNode_F.query activations that are suspended
  reauth,      \* authenticate() calls started by query and not settled
  disc,        \* onDiscover activations
  stopPc,      \* position of the 'stop' handler
  ctrlPc,      \* position of the config handler / autoCreateController
  unhandled,   \* promises that rejected with nobody awaiting them
  vendorWrites,\* nuheat.setPointHeat calls that have not settled
  events,      \* host events delivered so far
  saved,       \* the poly.saveCustomParams calls of the last config handler run
  notices,     \* the notices posted since the last poly.removeNoticesAll()
  restarts     \* restarts of the node server so far

\* what only the config handler, autoCreateController and a restart change
hubVars == <<saved, notices, restarts>>

vars == <<nodes, drivers, customParams, lockHolder, lockQueue, pollLog,
          queries, reauth, disc, stopPc, ctrlPc, unhandled, vendorWrites, events,
          saved, notices, restarts>>

(* ------------------- vendor client and hub outcomes ------------------- *)
\* what nuheat.thermostat(address) may resolve with, besides null
VendorStates ==
  { [Temperature |-> 20, SetPointTemp |-> 25, OperatingMode |-> 1, Heating |-> TRUE],
    [Temperature |-> 20, SetPointTemp |-> 25, OperatingMode |-> 1, Heating |-> FALSE] }

\* what nuheat.thermostats() may resolve with, besides null: the serial
\* numbers of tstats.Groups[*].Thermostats[*], in listing order
Listings == { <<1, 2>> }

\* nuheat.CtoF
CtoF(c) == (c * 9) \div 5 + 32

\* nuheat.FtoJC: degrees Fahrenheit to the vendor's Celsius set point, in
\* whole degrees (72 gives 22)
FtoJC(f) == ((f - 32) * 5) \div 9

\* config.nodes of the first config event: the nodes the hub already knows
ConfigNodes ==
  { [a \in {} |-> CONTROLLER],
    [a \in {ControllerAddress, "1", "2"} |->
        CASE a = ControllerAddress -> CONTROLLER
          [] a = "1" -> THERMOSTAT_F
          [] a = "2" -> THERMOSTAT_C] }

\* this.drivers of a thermostat node as set by its constructor
InitDrivers == [ST |-> 0, CLISPH |-> 0, CLIMD |-> 0, CLIHCS |-> 0]

\* a key of the configuration that is not among the defaults
OrphanKey == "Extra"

\* values the user may have saved under a key
InputValues(k) ==
  CASE k = emailParam -> {"", "me@home.net"}
    [] k = pwParam -> {"", "secret"}
    [] k = tempScale -> {"", "Celsius"}
    [] OTHER -> {"old"}

\* config.customParams of the first config event: any subset of the keys,
\* each with one of its values
CurrentParams ==
  LET keys == {emailParam, pwParam, tempScale, OrphanKey}
      values == UNION {InputValues(k) : k \in keys}
  IN UNION {{f \in [K -> values] : \A k \in K : f[k] \in InputValues(k)} :
              K \in SUBSET keys}

(* ------------------------------ helpers ------------------------------- *)
\* poly.getCustomParam(key): undefined for a key that is not there
getCustomParam(key) ==
  IF key \in DOMAIN customParams THEN customParams[key] ELSE None

\* Object.keys(nodes): integer-like keys ascending, then the string keys
KeyOrder == <<"1", "2", ControllerAddress>>

InNodes(a) == a \in DOMAIN nodes

ObjectKeys == SelectSeq(KeyOrder, InNodes)

\* (mutant) the controller has no query
HasQueryThermostatsOnly(nodeDefId) == nodeDefId \in {THERMOSTAT_F, THERMOSTAT_C}

\* 'query' in nodes[address]: every node class inherits query() from
\* Polyglot.Node, which is why the controller can list QUERY: this.query
HasQuery(nodeDefId) == nodeDefId \in {CONTROLLER, THERMOSTAT_F, THERMOSTAT_C}

\* only ThermostatNode_F overrides query() with the async vendor fetch; the
\* other classes run the inherited synchronous one
OverridesQuery(nodeDefId) == nodeDefId = THERMOSTAT_F

Range(s) == {s[i] : i \in 1..Len(s)}

\* an onDiscover activation that has not been started
IdleDisc == [pc |-> "idle", tstats |-> <<>>, isNull |-> FALSE,
             authFailed |-> FALSE, todo |-> <<>>, cur |-> None,
             curKind |-> None, attempted |-> {}, failed |-> {}, kinds |-> {}]

Init ==
  /\ nodes = [a \in {} |-> CONTROLLER]
  /\ drivers = [a \in {} |-> InitDrivers]
  /\ customParams = defaultParams
  /\ lockHolder = <<>>
  /\ lockQueue = <<>>
  /\ pollLog = None
  /\ queries = {}
  /\ reauth = 0
  /\ disc = [d \in 1..MaxDiscover |-> IdleDisc]
  /\ stopPc = "idle"
  /\ ctrlPc = "boot"
  /\ unhandled = {}
  /\ vendorWrites = {}
  /\ events = 0
  /\ saved = <<>>
  /\ notices = {}
  /\ restarts = 0

\* the host delivers events until poly.stop() was called
HostEvent == /\ events < MaxEvents
             /\ stopPc # "stopped"
             /\ events' = events + 1

(* --------------------- the poll lock and doPoll ---------------------- *)
\* indices of Object.keys(nodes) at which the forEach of a short poll may
\* be left by a throw: the inherited query() is called synchronously, the
\* async query() of ThermostatNode_F only ever returns a promise.  0: no throw
ThrowChoices(longPoll) ==
  IF longPoll THEN {0}
  ELSE {0} \cup {i \in 1..Len(ObjectKeys) : ~OverridesQuery(nodes[ObjectKeys[i]])}

Queryable(a) == HasQuery(nodes[a])

\* the function passed to lock.acquire('poll', ...), for task t, when the
\* forEach is left at index k; the holder records what the section did:
\* the keys it enumerated and the nodes whose query it called
LockedSection(t, k) ==
  LET keys == ObjectKeys
      visited == IF k = 0 THEN keys ELSE SubSeq(keys, 1, k)
      queried == IF t.longPoll THEN <<>> ELSE SelectSeq(visited, Queryable)
      started == {[addr |-> a, pc |-> "fetch", pass |-> t.pass, src |-> t.src] :
                    a \in {x \in Range(queried) : OverridesQuery(nodes[x])}}
  IN /\ lockHolder' = <<[longPoll |-> t.longPoll, src |-> t.src, pass |-> t.pass,
                         keys |-> keys, queried |-> queried,
                         err |-> (k # 0), resolved |-> t.resolved]>>
     /\ queries' = queries \cup started

\* async-lock exec(): runs the function and keeps the key locked until the
\* promise of its result has been handled
Exec(t) == \E k \in ThrowChoices(t.longPoll) : LockedSection(t, k)

\* (mutant) a task whose wait timed out is run when its turn comes
NextTasksNoSkip(q) == q

\* async-lock: a task whose wait timed out stays in the queue but is
\* skipped when its turn comes
RECURSIVE NextTasks(_)
NextTasks(q) ==
  IF q = <<>> THEN <<>>
  ELSE IF Head(q).resolved THEN NextTasks(Tail(q)) ELSE q

\* (mutant) the key is released only when the function returned
ReleasesLockOnSuccess(err) == ~err

\* async-lock done(): the key is released whether the function returned
\* or threw
ReleasesLock(err) == TRUE

\* the try / catch of doPoll around lock.acquire
DoPollCatch(err) ==
  CASE err = "none" -> "resolved"
    [] err = "thrown" -> "logged: thrown in locked section"
    [] err = "timeout" -> "logged: async-lock timed out"

\* the 'stop' handler awaits its two doPoll calls
AfterDoPoll(src) ==
  IF src = "stop"
    THEN (IF stopPc = "short" THEN "afterShort" ELSE "afterLong")
    ELSE stopPc

\* doPoll(longPoll) up to its await
doPoll(longPoll, src, pass) ==
  LET t == [longPoll |-> longPoll, src |-> src, pass |-> pass, resolved |-> FALSE]
  IN IF lockHolder = <<>>
       THEN Exec(t) /\ UNCHANGED lockQueue
       ELSE /\ lockQueue' = Append(lockQueue, t)
            /\ UNCHANGED <<lockHolder, queries, hubVars>>

\* poly.on('poll')
PollTick(longPoll) ==
  /\ HostEvent
  /\ doPoll(longPoll, "timer", events + 1)
  /\ UNCHANGED <<nodes, drivers, customParams, pollLog, reauth, disc, stopPc,
                 ctrlPc, unhandled, vendorWrites, hubVars>>

\* the result of the locked section is handled: doPoll settles, the key is
\* released or handed to the next waiting task, which runs at once
LockDone ==
  /\ lockHolder # <<>>
  /\ ReleasesLock(lockHolder[1].err)
  /\ LET h == lockHolder[1]
         rest == NextTasks(lockQueue)
     IN /\ pollLog' = DoPollCatch(IF h.err THEN "thrown" ELSE "none")
        /\ stopPc' = AfterDoPoll(h.src)
        /\ IF rest = <<>>
             THEN /\ lockHolder' = <<>>
                  /\ lockQueue' = <<>>
                  /\ UNCHANGED queries
             ELSE /\ Exec(Head(rest))
                  /\ lockQueue' = Tail(rest)
  /\ UNCHANGED <<nodes, drivers, customParams, reauth, disc, ctrlPc,
                 unhandled, vendorWrites, events, hubVars>>

\* the 500 ms timer of a waiting task fires: lock.acquire rejects
LockTimeout(i) ==
  /\ i \in 1..Len(lockQueue)
  /\ ~lockQueue[i].resolved
  /\ lockQueue' = [lockQueue EXCEPT ![i].resolved = TRUE]
  /\ pollLog' = DoPollCatch("timeout")
  /\ stopPc' = AfterDoPoll(lockQueue[i].src)
  /\ UNCHANGED <<nodes, drivers, customParams, lockHolder, queries, reauth,
                 disc, ctrlPc, unhandled, vendorWrites, events, hubVars>>

(* ------------------------- poly.on('stop') --------------------------- *)
StopRequest ==
  /\ HostEvent
  /\ stopPc = "idle"
  /\ stopPc' = "short"
  /\ doPoll(FALSE, "stop", events + 1)
  /\ UNCHANGED <<nodes, drivers, customParams, pollLog, reauth, disc, ctrlPc,
                 unhandled, vendorWrites, hubVars>>

\* after await doPoll(false): doPoll(true)
StopLongPoll ==
  /\ stopPc = "afterShort"
  /\ stopPc' = "long"
  /\ doPoll(TRUE, "stop", MaxEvents + 1)
  /\ UNCHANGED <<nodes, drivers, customParams, pollLog, reauth, disc, ctrlPc,
                 unhandled, vendorWrites, events, hubVars>>

\* after await doPoll(true): poly.stop()
PolyStop ==
  /\ stopPc = "afterLong"
  /\ stopPc' = "stopped"
  /\ UNCHANGED <<nodes, drivers, customParams, lockHolder, lockQueue, pollLog,
                 queries, reauth, disc, ctrlPc, unhandled, vendorWrites, events, hubVars>>

(* -------------------- ThermostatNode_F.query ------------------------- *)
\* the four setDriver calls of query() for vendor state s
QueryDrivers(s) ==
  [ST |-> CtoF(s.Temperature), CLISPH |-> CtoF(s.SetPointTemp),
   CLIMD |-> s.OperatingMode, CLIHCS |-> 1]

\* nodes[a].query() is called: the async query() of ThermostatNode_F runs
\* to its awaits (storage.getItem, whose result is not used, then
\* nuheat.thermostat) and is suspended; the inherited query() is done
StartQuery(a, pass, src) ==
  IF OverridesQuery(nodes[a])
    THEN {[addr |-> a, pc |-> "fetch", pass |-> pass, src |-> src]}
    ELSE {}

\* the QUERY command of a node, dispatched by the hub interface
CmdQuery(a) ==
  /\ HostEvent
  /\ a \in DOMAIN nodes
  /\ queries' = queries \cup StartQuery(a, events + 1, "cmd")
  /\ UNCHANGED <<nodes, drivers, customParams, lockHolder, lockQueue, pollLog,
                 reauth, disc, stopPc, ctrlPc, unhandled, vendorWrites, hubVars>>

\* (mutant) after the empty fetch the query fetches again
AfterNullFetchRetry(q) == {q}

\* what is left of query() after the branch statInfo == null: nothing, the
\* function returns without awaiting authenticate() and without a second
\* nuheat.thermostat call
AfterNullFetch(q) == {}

\* nuheat.thermostat resolves with null: authenticate() is called and its
\* promise dropped
QueryNull(q) ==
  /\ q \in queries
  /\ q.pc = "fetch"
  /\ queries' = (queries \ {q}) \cup AfterNullFetch(q)
  /\ reauth' = reauth + 1
  /\ UNCHANGED <<nodes, drivers, customParams, lockHolder, lockQueue, pollLog,
                 disc, stopPc, ctrlPc, unhandled, vendorWrites, events, hubVars>>

\* nuheat.thermostat resolves with data
QueryData(q, s) ==
  /\ q \in queries
  /\ q.pc = "fetch"
  /\ queries' = queries \ {q}
  /\ drivers' = [drivers EXCEPT ![q.addr] = QueryDrivers(s)]
  /\ UNCHANGED <<nodes, customParams, lockHolder, lockQueue, pollLog,
                 reauth, disc, stopPc, ctrlPc, unhandled, vendorWrites, events, hubVars>>

\* nuheat.thermostat rejects or a setDriver throws: the promise returned by
\* query() rejects, and no caller kept it
QueryThrow(q) ==
  /\ q \in queries
  /\ q.pc = "fetch"
  /\ queries' = queries \ {q}
  /\ unhandled' = unhandled \cup {"query"}
  /\ UNCHANGED <<nodes, drivers, customParams, lockHolder, lockQueue, pollLog,
                 reauth, disc, stopPc, ctrlPc, vendorWrites, events, hubVars>>

\* the authenticate() started by query settles
ReauthSettle ==
  /\ reauth > 0
  /\ reauth' = reauth - 1
  /\ UNCHANGED <<nodes, drivers, customParams, lockHolder, lockQueue, pollLog,
                 queries, disc, stopPc, ctrlPc, unhandled, vendorWrites, events, hubVars>>

(* ------------------------- the CLISPH command ------------------------ *)
\* the nuheat.setPointHeat calls of setPointHeat(message): one, with the
\* converted value, in ThermostatNode_F; none in ThermostatNode_C, whose
\* setPointHeat only logs
SetPointWrites(nodeDefId, a, v, id) ==
  IF nodeDefId = THERMOSTAT_F
    THEN {[addr |-> a, setPoint |-> FtoJC(v), cmd |-> id]}
    ELSE {}

\* the drivers of the node after setPointHeat(message)
SetPointDrivers(nodeDefId, d, v) ==
  IF nodeDefId = THERMOSTAT_F THEN [d EXCEPT !.CLISPH = v] ELSE d

\* the CLISPH command of a thermostat node, dispatched by the hub
\* interface; the promise of nuheat.setPointHeat is dropped
CmdSetPointHeat(a, v) ==
  /\ HostEvent
  /\ a \in DOMAIN nodes
  /\ nodes[a] \in {THERMOSTAT_F, THERMOSTAT_C}
  /\ v \in SetPoints
  /\ vendorWrites' = vendorWrites \cup SetPointWrites(nodes[a], a, v, events + 1)
  /\ drivers' = [drivers EXCEPT ![a] = SetPointDrivers(nodes[a], drivers[a], v)]
  /\ UNCHANGED <<nodes, customParams, lockHolder, lockQueue, pollLog, queries,
                 reauth, disc, stopPc, ctrlPc, unhandled, hubVars>>

\* the promise of nuheat.setPointHeat settles; nobody awaits it
VendorWriteSettle(w, ok) ==
  /\ w \in vendorWrites
  /\ vendorWrites' = vendorWrites \ {w}
  /\ unhandled' = IF ok THEN unhandled ELSE unhandled \cup {"setPointHeat"}
  /\ UNCHANGED <<nodes, drivers, customParams, lockHolder, lockQueue, pollLog,
                 queries, reauth, disc, stopPc, ctrlPc, events, hubVars>>

(* --------------------- initializeCustomParams ------------------------ *)
\* (mutant) only default keys missing from the current parameters count
differentKeysMissingOnly(currentParams) ==
  DOMAIN defaultParams \ DOMAIN currentParams

\* differentKeys: the keys that are in only one of defaultParams and
\* currentParams
differentKeys(currentParams) ==
  {key \in DOMAIN defaultParams \cup DOMAIN currentParams :
     ~(key \in DOMAIN defaultParams) \/ ~(key \in DOMAIN currentParams)}

\* the truth value JavaScript gives currentParams[key]: undefined (no
\* such key) and the empty string are false
Truthy(currentParams, key) ==
  key \in DOMAIN currentParams /\ currentParams[key] # ""

\* (mutant) the keys of the current parameters are all kept
customParamsKeepAll(currentParams) ==
  [key \in DOMAIN defaultParams \cup DOMAIN currentParams |->
     IF Truthy(currentParams, key) THEN currentParams[key]
     ELSE IF key \in DOMAIN defaultParams THEN defaultParams[key] ELSE ""]

\* the customParams object built by the forEach over defaultParamKeys
customParamsOf(currentParams) ==
  [key \in DOMAIN defaultParams |->
     IF Truthy(currentParams, key) THEN currentParams[key]
     ELSE defaultParams[key]]

\* initializeCustomParams(currentParams): the poly.saveCustomParams calls
\* it makes, none or one
initializeCustomParams(currentParams) ==
  IF differentKeys(currentParams) # {}
    THEN <<customParamsOf(currentParams)>>
    ELSE <<>>

\* the parameters the hub holds after the calls: poly.saveCustomParams
\* replaces them
saveCustomParams(current, calls) ==
  IF calls = <<>> THEN current ELSE calls[Len(calls)]

(* ---------------------- poly.on('config') ---------------------------- *)
ThermostatsOf(ns) == {a \in DOMAIN ns : ns[a] # CONTROLLER}

\* the first config event after a restart
OnConfig(cn) ==
  /\ ctrlPc = "boot"
  /\ stopPc = "idle"
  /\ cn \in ConfigNodes
  /\ nodes' = cn
  /\ drivers' = [a \in ThermostatsOf(cn) |-> InitDrivers]
  /\ notices' = {}
  /\ saved' = initializeCustomParams(customParams)
  /\ customParams' = saveCustomParams(customParams, saved')
  /\ ctrlPc' = IF DOMAIN cn = {} THEN "adding" ELSE "ready"
  /\ UNCHANGED <<lockHolder, lockQueue, pollLog, queries, reauth, disc,
                 stopPc, unhandled, vendorWrites, events, restarts>>

\* polyInterface.addNode(node) resolved: the node is in the registry; a
\* node whose address is already there is left as it is
AddNode(ns, address, nodeDefId) ==
  [a \in DOMAIN ns \cup {address} |->
     IF a \in DOMAIN ns THEN ns[a] ELSE nodeDefId]

\* autoCreateController after await poly.addNode(...)
AutoCreateController(ok) ==
  /\ ctrlPc = "adding"
  /\ ctrlPc' = "ready"
  /\ nodes' = IF ok THEN AddNode(nodes, ControllerAddress, CONTROLLER) ELSE nodes
  /\ notices' = notices \cup {NewControllerNotice}
  /\ UNCHANGED <<drivers, customParams, lockHolder, lockQueue, pollLog, queries,
                 reauth, disc, stopPc, unhandled, vendorWrites, events,
                 saved, restarts>>

\* the node server is started again: the process starts from its initial
\* state, the hub keeps the custom parameters and the notices
Restart ==
  /\ ctrlPc = "ready"
  /\ restarts < MaxRestarts
  /\ restarts' = restarts + 1
  /\ nodes' = [a \in {} |-> CONTROLLER]
  /\ drivers' = [a \in {} |-> InitDrivers]
  /\ lockHolder' = <<>>
  /\ lockQueue' = <<>>
  /\ pollLog' = None
  /\ queries' = {}
  /\ reauth' = 0
  /\ disc' = [d \in 1..MaxDiscover |-> IdleDisc]
  /\ stopPc' = "idle"
  /\ ctrlPc' = "boot"
  /\ unhandled' = {}
  /\ vendorWrites' = {}
  /\ saved' = <<>>
  /\ UNCHANGED <<customParams, notices, events>>

\* the user saves another Scale in the configuration
ChangeScale(sc) ==
  /\ HostEvent
  /\ tempScale \in DOMAIN customParams
  /\ sc \in Scales \ {getCustomParam(tempScale)}
  /\ customParams' = [customParams EXCEPT ![tempScale] = sc]
  /\ UNCHANGED <<nodes, drivers, lockHolder, lockQueue, pollLog, queries,
                 reauth, disc, stopPc, ctrlPc, unhandled, vendorWrites, hubVars>>

(* ---------------------- Controller.onDiscover ------------------------ *)
DiscUnchanged == UNCHANGED <<drivers, customParams, lockHolder, lockQueue, pollLog,
                             queries, reauth, stopPc, ctrlPc, unhandled,
                             vendorWrites, hubVars>>

\* the DISCOVER command: nuheat.authenticate() is called, then
\* nuheat.thermostats() is called and awaited (the argument of .then is
\* evaluated before .then is applied)
CmdDiscover(d) ==
  /\ HostEvent
  /\ ControllerAddress \in DOMAIN nodes
  /\ disc[d].pc \in {"idle", "done"}
  /\ \A e \in 1..(d - 1) : disc[e].pc \notin {"idle", "done"}
  /\ disc' = [disc EXCEPT ![d] = [IdleDisc EXCEPT !.pc = "awaitList"]]
  /\ UNCHANGED nodes
  /\ DiscUnchanged

\* nuheat.thermostats() resolves with a listing: tstats is assigned, then
\* the promise of authenticate() is awaited
DiscListing(d, l) ==
  /\ disc[d].pc = "awaitList"
  /\ l \in Listings
  /\ disc' = [disc EXCEPT ![d].tstats = l, ![d].pc = "awaitAuth"]
  /\ UNCHANGED <<nodes, events>>
  /\ DiscUnchanged

\* nuheat.thermostats() resolves with null
DiscNoListing(d) ==
  /\ disc[d].pc = "awaitList"
  /\ disc' = [disc EXCEPT ![d].isNull = TRUE, ![d].pc = "awaitAuth"]
  /\ UNCHANGED <<nodes, events>>
  /\ DiscUnchanged

\* the class instantiated for the scale read in the loop body
NodeClass(sc) == IF sc = "Fahrenheit" THEN THERMOSTAT_F ELSE THERMOSTAT_C

\* the loop over the listed thermostats, entered with todo left to do: the
\* body runs up to await polyInterface.addNode(...); with nothing left
\* onDiscover returns
LoopBody(r, todo) ==
  IF todo = <<>>
    THEN [r EXCEPT !.pc = "done", !.todo = <<>>]
    ELSE [r EXCEPT !.pc = "adding",
                   !.todo = todo,
                   !.cur = toString(Head(todo)),
                   !.curKind = NodeClass(getCustomParam(tempScale)),
                   !.attempted = @ \cup {toString(Head(todo))}]

\* the thermostats onDiscover goes on with after the try / catch around
\* authenticate: the catch only logs, and tstats keeps what thermostats()
\* gave; tstats == undefined returns
AfterAuthenticate(ok, isNull, tstats) ==
  IF isNull THEN <<>> ELSE tstats

\* the promise of authenticate() settles
DiscAuthenticate(d, ok) ==
  /\ disc[d].pc = "awaitAuth"
  /\ disc' = [disc EXCEPT ![d] =
                LoopBody([disc[d] EXCEPT !.authFailed = ~ok],
                         AfterAuthenticate(ok, disc[d].isNull, disc[d].tstats))]
  /\ UNCHANGED <<nodes, events>>
  /\ DiscUnchanged

\* (mutant) no catch around addNode: a failure leaves onDiscover
AfterAddNodeRethrow(ok) == IF ok THEN "sleep" ELSE "escaped"

\* the catch around addNode only logs: the loop goes on to the sleep
AfterAddNode(ok) == "sleep"

\* addNode settles
DiscAddNode(d, ok) ==
  /\ disc[d].pc = "adding"
  /\ disc' = [disc EXCEPT ![d].pc = AfterAddNode(ok),
                          ![d].cur = None,
                          ![d].curKind = None,
                          ![d].failed = IF ok THEN @ ELSE @ \cup {disc[d].cur},
                          ![d].kinds = IF ok /\ disc[d].cur \notin DOMAIN nodes
                                         THEN @ \cup {disc[d].curKind} ELSE @]
  /\ nodes' = IF ok THEN AddNode(nodes, disc[d].cur, disc[d].curKind) ELSE nodes
  /\ drivers' = IF ok /\ disc[d].cur \notin DOMAIN nodes
                  THEN [a \in DOMAIN drivers \cup {disc[d].cur} |->
                          IF a \in DOMAIN drivers THEN drivers[a] ELSE InitDrivers]
                  ELSE drivers
  /\ UNCHANGED <<customParams, lockHolder, lockQueue, pollLog, queries,
                 reauth, stopPc, ctrlPc, unhandled, vendorWrites, events, hubVars>>

\* await nuheat.sleep(1000) resolves: next thermostat, or the end
DiscSleep(d) ==
  /\ disc[d].pc = "sleep"
  /\ disc' = [disc EXCEPT ![d] = LoopBody(disc[d], Tail(disc[d].todo))]
  /\ UNCHANGED <<nodes, events>>
  /\ DiscUnchanged

(* --------------------------- specification --------------------------- *)
Discover ==
  \E d \in 1..MaxDiscover :
    \/ CmdDiscover(d)
    \/ \E l \in Listings : DiscListing(d, l)
    \/ DiscNoListing(d)
    \/ \E ok \in BOOLEAN : DiscAuthenticate(d, ok)
    \/ \E ok \in BOOLEAN : DiscAddNode(d, ok)
    \/ DiscSleep(d)

Query ==
  \/ \E a \in Addresses : CmdQuery(a)
  \/ \E q \in queries :
       \/ QueryNull(q)
       \/ \E s \in VendorStates : QueryData(q, s)
       \/ QueryThrow(q)
  \/ ReauthSettle

Poll ==
  \/ \E longPoll \in BOOLEAN : PollTick(longPoll)
  \/ LockDone
  \/ \E i \in 1..Len(lockQueue) : LockTimeout(i)
  \/ StopRequest
  \/ StopLongPoll
  \/ PolyStop

SetPoint ==
  \/ \E a \in ThermostatAddresses, v \in SetPoints : CmdSetPointHeat(a, v)
  \/ \E w \in vendorWrites, ok \in BOOLEAN : VendorWriteSettle(w, ok)

Config ==
  \/ \E cn \in ConfigNodes : OnConfig(cn)
  \/ \E ok \in BOOLEAN : AutoCreateController(ok)
  \/ \E sc \in Scales : ChangeScale(sc)

Next == Poll \/ Query \/ SetPoint \/ Config \/ Discover

Spec == Init /\ [][Next]_vars

\* every promise the event loop is waiting on for the lock settles
FairSpec == Spec /\ WF_vars(LockDone)

\* the configuration the hub may hold when the node server starts
ParamInit ==
  /\ nodes = [a \in {} |-> CONTROLLER]
  /\ drivers = [a \in {} |-> InitDrivers]
  /\ customParams \in CurrentParams
  /\ lockHolder = <<>>
  /\ lockQueue = <<>>
  /\ pollLog = None
  /\ queries = {}
  /\ reauth = 0
  /\ disc = [d \in 1..MaxDiscover |-> IdleDisc]
  /\ stopPc = "idle"
  /\ ctrlPc = "boot"
  /\ unhandled = {}
  /\ vendorWrites = {}
  /\ events = 0
  /\ saved = <<>>
  /\ notices = {}
  /\ restarts = 0

\* start-up of the node server, over again: the config handler with
\* initializeCustomParams and autoCreateController
ParamNext ==
  \/ \E cn \in ConfigNodes : OnConfig(cn)
  \/ \E ok \in BOOLEAN : AutoCreateController(ok)
  \/ Restart

ParamSpec == ParamInit /\ [][ParamNext]_vars

(* ------------------------------ claims ------------------------------- *)
\* poll passes that hold the lock or have a query of theirs suspended
PassesInFlight ==
  {q.pass : q \in {x \in queries : x.src # "cmd"}}
    \cup {lockHolder[i].pass : i \in 1..Len(lockHolder)}

\* C1: the reconciliation work of two poll triggers never overlaps: the
\* number of poll passes in flight (lock held, or a query the pass started
\* not yet completed) never exceeds 1.
C1_MutualExclusion == Cardinality(PassesInFlight) <= 1

\* queries of address a, and discovery steps registering a, in flight
OpsInFlight(a) ==
  Cardinality({q \in queries : q.addr = a})
    + Cardinality({d \in 1..MaxDiscover : disc[d].pc = "adding" /\ disc[d].cur = a})

\* C2: for every address, at most one query or discovery operation for
\* that address is in flight at any time.
C2_OneOperationPerAddress == \A a \in Addresses : OpsInFlight(a) <= 1

\* C3: the poll lock is released on every path out of a pass (return,
\* throw, timeout of a waiting trigger): from every reachable state the
\* lock becomes free again, so it is never held forever and a later trigger
\* can take it.
C3_LockAlwaysReleased == []<>(lockHolder = <<>> /\ lockQueue = <<>>)

\* a pass whose locked section threw has released the lock
C3_Witness ==
  /\ pollLog = "logged: thrown in locked section"
  /\ lockHolder = <<>>

\* C4: no exception of a poll pass propagates: doPoll never rejects and no
\* error raised by a device's query is left uncaught.
C4_NothingEscapesPoll ==
  /\ pollLog \in {None, "resolved", "logged: thrown in locked section",
                  "logged: async-lock timed out"}
  /\ "query" \notin unhandled

\* a waiting task's timer fires in this step
TimedOutStep ==
  \E i \in 1..Len(lockQueue), j \in 1..Len(lockQueue') :
    /\ lockQueue'[j].pass = lockQueue[i].pass
    /\ ~lockQueue[i].resolved
    /\ lockQueue'[j].resolved

\* C5: a trigger that times out waiting for the lock is dropped: the
\* timeout is logged and swallowed, starts no query, and the task never
\* runs its locked section afterwards.
C5_PollBusyDropped ==
  /\ [](/\ \A j \in 1..Len(lockHolder) : ~lockHolder[j].resolved
        /\ \A i \in 1..Len(lockQueue) :
             lockQueue[i].resolved =>
               /\ \A q \in queries : q.pass # lockQueue[i].pass
               /\ \A j \in 1..Len(lockHolder) : lockHolder[j].pass # lockQueue[i].pass)
  /\ [][TimedOutStep =>
          /\ pollLog' = "logged: async-lock timed out"
          /\ queries' = queries
          /\ lockHolder' = lockHolder
          /\ unhandled' = unhandled]_vars

\* a trigger has timed out behind a running pass
C5_Witness ==
  /\ pollLog = "logged: async-lock timed out"
  /\ \E i \in 1..Len(lockQueue) : lockQueue[i].resolved

\* C6: when poly.stop() is called, the final short pass and the final long
\* pass have run to completion, the queries of the short pass included.
C6_FinalPassesComplete ==
  stopPc = "stopped" => \A q \in queries : q.src # "stop"

\* C7 as stated: a short pass queries exactly the thermostats of the
\* registry and no controller.
C7_QueriesThermostatsOnly ==
  \A j \in 1..Len(lockHolder) :
    ~lockHolder[j].longPoll =>
      Range(lockHolder[j].queried)
        = {a \in Range(lockHolder[j].keys) : nodes[a] # CONTROLLER}

\* a long pass takes the lock in this step
LongPassStep ==
  /\ lockHolder' # lockHolder
  /\ lockHolder' # <<>>
  /\ lockHolder'[1].longPoll

\* what a pass that ran the locked section did, according to C7 (amended)
QueriedEveryNode(h) ==
  IF h.longPoll
    THEN h.queried = <<>>
    ELSE /\ Len(h.queried) <= Len(h.keys)
         /\ h.queried = SubSeq(h.keys, 1, Len(h.queried))
         /\ ~h.err => h.queried = h.keys
         /\ h.err => /\ h.queried # <<>>
                     /\ ~OverridesQuery(nodes[h.queried[Len(h.queried)]])

\* C7 (amended): a short pass that runs under the lock calls query, in
\* registry order, once on every node, the controller included, up to and
\* including the first node whose inherited query throws (all nodes when
\* none throws); a long pass calls no query and changes no registry or
\* driver state.
C7_QueriesEveryNode ==
  /\ [](\A j \in 1..Len(lockHolder) : QueriedEveryNode(lockHolder[j]))
  /\ [][LongPassStep =>
          /\ nodes' = nodes
          /\ drivers' = drivers
          /\ queries' = queries]_vars

\* a short pass has queried a thermostat and the controller
C7_Witness ==
  \E j \in 1..Len(lockHolder) :
    /\ ~lockHolder[j].longPoll
    /\ ~lockHolder[j].err
    /\ ControllerAddress \in Range(lockHolder[j].queried)
    /\ Len(lockHolder[j].queried) > 1

\* C8: a discovery pass whose authentication failed creates no device.
C8_AuthFailureAborts ==
  \A d \in 1..MaxDiscover : disc[d].authFailed => disc[d].attempted = {}

\* C9: discovery attempts to create a device only for addresses that are
\* not in the registry yet.
C9_OnlyNewAddresses ==
  \A d \in 1..MaxDiscover : disc[d].pc = "adding" => disc[d].cur \notin DOMAIN nodes

\* addresses of the thermostats listed to pass d
Listed(d) == {toString(n) : n \in Range(disc[d].tstats)}

\* C10: when registering one listed thermostat fails, every other one is
\* still attempted and, unless its own addNode fails, registered; no
\* exception leaves onDiscover.
C10_PartialFailureIsolated ==
  \A d \in 1..MaxDiscover :
    /\ disc[d].pc # "escaped"
    /\ disc[d].pc \in {"done", "escaped"} => disc[d].attempted = Listed(d)
    /\ disc[d].pc \in {"done", "escaped"} =>
         (disc[d].attempted \ disc[d].failed) \subseteq DOMAIN nodes

\* a pass is over in which the first registration failed and the second
\* succeeded
C10_Witness ==
  \E d \in 1..MaxDiscover :
    /\ disc[d].pc = "done"
    /\ disc[d].tstats = <<1, 2>>
    /\ disc[d].failed = {"1"}
    /\ "1" \notin DOMAIN nodes
    /\ "2" \in DOMAIN nodes

\* a query's vendor fetch is answered with null in this step: the only
\* step that starts an authenticate() on behalf of a query
NullFetchStep == reauth' > reauth

\* C11: a query whose vendor fetch returned null writes no driver, starts
\* authenticate exactly once, is over in the same step although that
\* authenticate has not settled, and starts no other fetch.
C11_NullFetchReauthenticates ==
  [][NullFetchStep =>
       /\ drivers' = drivers
       /\ reauth' = reauth + 1
       /\ \E q \in queries : queries' = queries \ {q}
       /\ unhandled' = unhandled]_vars

\* a query of thermostat "1" ended on an empty fetch: its authenticate()
\* is outstanding, no query of "1" is suspended, no driver was written
C11_Witness ==
  /\ reauth = 1
  /\ "1" \in DOMAIN drivers
  /\ nodes["1"] = THERMOSTAT_F
  /\ drivers["1"] = InitDrivers
  /\ queries = {}
  /\ events = 1

\* a short pass runs its locked section in this step
ShortPassStep ==
  /\ lockHolder' # lockHolder
  /\ lockHolder' # <<>>
  /\ ~lockHolder'[1].longPoll

\* the thermostats of either class whose query the pass of holder h called
\* and which did not throw
QueriedThermostats(h) ==
  {h.queried[i] : i \in {n \in 1..Len(h.queried) :
                            /\ nodes[h.queried[n]] \in {THERMOSTAT_F, THERMOSTAT_C}
                            /\ ~(h.err /\ n = Len(h.queried))}}

\* C12: for every thermostat of either class, the query called by a short
\* pass fetches the vendor state, and a fetch answered with data writes
\* the four drivers ST, CLISPH, CLIMD and CLIHCS from it, CLIHCS with the
\* fixed value 1 whatever the vendor's Heating field is.
C12_QueryWritesFourDrivers ==
  /\ [][ShortPassStep =>
          \A a \in QueriedThermostats(lockHolder'[1]) :
            \E q \in queries' : q.addr = a /\ q.pass = lockHolder'[1].pass]_vars
  /\ [][\A q \in queries \ queries' :
          drivers'[q.addr] # drivers[q.addr] =>
            \E s \in VendorStates :
              /\ drivers'[q.addr].ST = CtoF(s.Temperature)
              /\ drivers'[q.addr].CLISPH = CtoF(s.SetPointTemp)
              /\ drivers'[q.addr].CLIMD = s.OperatingMode
              /\ drivers'[q.addr].CLIHCS = 1]_vars

\* C13: the CLISPH command with value v, on a thermostat of either class,
\* issues exactly one vendor set-point write for the node's address with v
\* converted to the vendor's unit, and sets the node's CLISPH driver to v
\* in the same step; the later settling of the write, whether it succeeds
\* or fails, changes no driver.
C13_SetPointOptimistic ==
  /\ [][\A a \in ThermostatAddresses, v \in SetPoints :
          CmdSetPointHeat(a, v) =>
            /\ \E w \in vendorWrites' \ vendorWrites :
                 /\ vendorWrites' = vendorWrites \cup {w}
                 /\ w.addr = a
                 /\ w.setPoint = FtoJC(v)
            /\ drivers'[a].CLISPH = v]_vars
  /\ [][vendorWrites' # vendorWrites /\ vendorWrites' \subseteq vendorWrites =>
          drivers' = drivers]_vars

\* the handler of the first config event after a (re)start runs in this
\* step, on the parameters the hub holds
InitialConfigStep == ctrlPc = "boot" /\ ctrlPc' # "boot"

C15_ReconcileIdempotent ==
  [][InitialConfigStep /\ restarts > 0 =>
       /\ saved' = <<>>
       /\ customParams' = customParams]_vars

\* the second application has run on a mapping the first one persisted
\* (the default scale was filled in: no input carries it)
C15_Witness ==
  /\ restarts = 1
  /\ ctrlPc = "ready"
  /\ saved = <<>>
  /\ customParams[emailParam] = "me@home.net"
  /\ customParams[pwParam] = "secret"
  /\ customParams[tempScale] = DefaultScale

\* a controller node is added to the registry in this step
ControllerCreatedStep ==
  {a \in DOMAIN nodes' : nodes'[a] = CONTROLLER}
    # {a \in DOMAIN nodes : nodes[a] = CONTROLLER}

\* C16: the first config event after a start, when it lists no node, leads
\* to exactly one controller node, at address 'controller', and to the
\* notice 'newController' shown for 5 seconds; when it lists one or more
\* nodes, and on every later event, configuration changes included, no
\* controller is created and no notice is posted.
C16_ControllerOnColdStart ==
  /\ [][InitialConfigStep =>
          /\ notices' = {}
          /\ DOMAIN nodes' = {} <=> ctrlPc' = "adding"
          /\ DOMAIN nodes' # {} =>
               {a \in DOMAIN nodes' : nodes'[a] = CONTROLLER} = {ControllerAddress}]_vars
  /\ [][ctrlPc = "adding" /\ ctrlPc' = "ready" =>
          /\ nodes' = [a \in {ControllerAddress} |-> CONTROLLER]
          /\ notices' = {[key |-> "newController",
                           text |-> "Controller node initialized", time |-> 5]}]_vars
  /\ [][ctrlPc # "adding" /\ ~InitialConfigStep =>
          /\ ~ControllerCreatedStep
          /\ notices' \subseteq notices]_vars

\* C17: the thermostats one discovery pass creates are all of the same
\* class, all ThermostatNode_F or all ThermostatNode_C, also when the
\* Scale parameter is changed while the pass is suspended.
C17_OneVariantPerPass ==
  \A d \in 1..MaxDiscover : Cardinality(disc[d].kinds) <= 1

\* nuheat.authenticate() calls that have not settled: the one of every
\* onDiscover activation that still waits for it, and the ones started by
\* queries after an empty fetch
AuthenticationsInFlight ==
  reauth + Cardinality({d \in 1..MaxDiscover :
                          disc[d].pc \in {"awaitList", "awaitAuth"}})

\* C18: writes of the session token are serialized: at no time are two
\* authentications (of discovery, or re-authentications of queries) in
\* flight together.
C18_AuthenticationSerialized == AuthenticationsInFlight <= 1

\* a query ends here on a failure (an empty fetch, or a rejected fetch or
\* driver write): it leaves the suspended queries with no driver written
QueryFailedStep ==
  /\ queries' # queries
  /\ queries' \subseteq queries
  /\ drivers' = drivers

\* C19: in a short pass the failure of one node's query, whether it
\* throws, gets an empty fetch or fails to write a driver, keeps query
\* from being called on no other node of the registry, and changes no
\* driver of another node nor the queries of the other nodes.
C19_QueryFailureIsolated ==
  /\ [](\A j \in 1..Len(lockHolder) :
          ~lockHolder[j].longPoll =>
            Range(lockHolder[j].queried) = Range(lockHolder[j].keys))
  /\ [][QueryFailedStep =>
          /\ Cardinality(queries \ queries') = 1
          /\ lockHolder' = lockHolder
          /\ nodes' = nodes]_vars

\* C20: in a mapping that initializeCustomParams persists, every default
\* key that the current parameters have keeps its current value, the
\* empty string included, and every default key they lack gets its
\* default value.
C20_CurrentValuesKept ==
  [][InitialConfigStep =>
       \A i \in 1..Len(saved') :
         \A key \in {emailParam, pwParam, tempScale} :
           saved'[i][key] = IF key \in DOMAIN customParams
                              THEN customParams[key]
                              ELSE defaultParams[key]]_vars

====
